---- MODULE Spec2Model ----
(***************************************************************************)
(* Model of src/app.py: a Flask backend with process-wide initialisation   *)
(* of a generative-model client, a health route (GET /check) and an        *)
(* execution route (POST /api/execute).                                    *)
(*                                                                         *)
(* Strings are sequences over Chars; JSON values are records               *)
(*   [t, n, s, keys, q]                                                    *)
(* t the JSON type, n the number (or the size of an array / nested         *)
(* object, or 0/1 for false/true), s the characters of a string, keys the  *)
(* keys of a top-level object and q the value stored under "query".        *)
(* Request bodies are taken as get_json sees them on a request declared    *)
(* as JSON: absent, empty, malformed, or a JSON value.                     *)
(***************************************************************************)
EXTENDS Integers, Sequences, FiniteSets, TLC

\* ---------------------------------------------------------------- bounds
NReq == 2        \* concurrent requests in flight
MaxLen == 2      \* longest string (query, returned text)

\* ---------------------------------------------------------------- strings
Chars == {"a", " "}
Whitespace == {" "}

Strs == UNION {[1..k -> Chars] : k \in 0..MaxLen}

RECURSIVE LStrip(_)
LStrip(s) == IF s # <<>> /\ Head(s) \in Whitespace THEN LStrip(Tail(s)) ELSE s

RECURSIVE RStrip(_)
RStrip(s) ==
    IF s # <<>> /\ s[Len(s)] \in Whitespace
    THEN RStrip(SubSeq(s, 1, Len(s) - 1))
    ELSE s

\* str.strip()
Strip(s) == RStrip(LStrip(s))

\* ---------------------------------------------------------------- JSON
Keys == {"query", "other"}

JVal(t, n, s) == [t |-> t, n |-> n, s |-> s, keys |-> {}, q |-> <<>>]

JNull == JVal("null", 0, <<>>)

\* values without a key set: scalars, arrays and nested objects by size
Leaves ==
    {JNull}
    \cup {JVal("bool", n, <<>>) : n \in 0..1}
    \cup {JVal("num", n, <<>>) : n \in 0..1}
    \cup {JVal("str", 0, s) : s \in Strs}
    \cup {JVal("arr", n, <<>>) : n \in 0..1}
    \cup {JVal("obj", n, <<>>) : n \in 0..1}

\* what a Leaf is when stored under a key of an object
Stored(v) == <<v.t, v.n, v.s>>

\* top-level objects, their keys drawn from Keys
Objects ==
    {[t |-> "obj", n |-> Cardinality(ks), s |-> <<>>, keys |-> ks, q |-> <<>>] :
        ks \in SUBSET (Keys \ {"query"})}
    \cup {[t |-> "obj", n |-> 1, s |-> <<>>, keys |-> {"query"}, q |-> Stored(v)] :
        v \in Leaves}
    \cup {[t |-> "obj", n |-> 2, s |-> <<>>, keys |-> Keys, q |-> Stored(v)] :
        v \in {JNull, JVal("str", 0, <<"a">>)}}

JSON == {v \in Leaves : v.t # "obj"} \cup Objects

Bodies ==
    {[kind |-> k, val |-> JNull] : k \in {"missing", "empty", "malformed"}}
    \cup {[kind |-> "json", val |-> v] : v \in JSON}

\* ---------------------------------------------------------------- Python
\* truth value of a parsed JSON value: None, False, 0, "", [] and {} are falsy
Truthy(v) ==
    CASE v.t = "null" -> FALSE
      [] v.t = "bool" -> v.n = 1
      [] v.t = "num"  -> v.n # 0
      [] v.t = "str"  -> v.s # <<>>
      [] v.t = "arr"  -> v.n # 0
      [] v.t = "obj"  -> v.n # 0

\* request.get_json(silent=True): None unless the body parses
GetJson(body) == IF body.kind = "json" THEN body.val ELSE JNull

\* only a dict has .get; on anything else data.get raises AttributeError
HasGet(data) == data.t = "obj"

\* data.get('query'): the stored value, None when the key is absent
DictGet(data) ==
    IF "query" \in data.keys THEN JVal(data.q[1], data.q[2], data.q[3]) ELSE JNull

\* isinstance(query, str)
IsStr(v) == v.t = "str"

\* negation of: not query or not isinstance(query, str) or not query.strip()
QueryOk(query) == Truthy(query) /\ IsStr(query) /\ Strip(query.s) # <<>>

\* ---------------------------------------------------------------- responses
MODEL_TO_USE == "gemini-2.5-flash"

Resp(status, kind, text, detail, result, mdl) ==
    [status |-> status, kind |-> kind, st |-> "", text |-> text,
     detail |-> detail, result |-> result, model |-> mdl]

NoResp == Resp(0, "none", "", "", <<>>, "")

\* jsonify({'error': text + detail}), status
ErrorResp(status, text, detail) == Resp(status, "error", text, detail, <<>>, "")

NotInitialized ==
    ErrorResp(503, "AI service not initialized. Check API key configuration.", "")

InvalidJson == ErrorResp(400, "Invalid or missing JSON payload.", "")

MissingQuery ==
    ErrorResp(400, "Missing or empty \"query\" field in the request.", "")

\* jsonify({'success': True, 'result': result}), default status 200
Success(result) == Resp(200, "success", "", "", result, "")

\* an exception that leaves the view function: the framework answers 500
\* with its own error page, not a JSON object
Unhandled == Resp(500, "unhandled", "Internal Server Error", "", <<>>, "")

\* ---------------------------------------------------------------- errors
ExcClasses == {"APIError", "Exception"}
ExcMsgs == {"quota exceeded"}
Excs == [cls : ExcClasses, msg : ExcMsgs]

GuardExc ==
    [cls |-> "Exception",
     msg |-> "AI model failed to initialize due to missing or invalid API key."]

\* OnError with the general except clause first
OnError_GeneralFirst(e) ==
    ErrorResp(500, "An unexpected internal server error occurred.", "")

\* the except clauses of execute, in order
OnError(e) ==
    IF e.cls = "APIError"
    THEN ErrorResp(503, "AI Service Unavailable or request error: ", e.msg)
    ELSE ErrorResp(500, "An unexpected internal server error occurred.", "")

\* CheckResp with status_code never set to 503
CheckResp_Always200(m) ==
    LET message == IF m = "None"
                   THEN "backend is running, but AI model failed to initialize."
                   ELSE "backend is running"
    IN  [Resp(200, "health", message, "", <<>>, MODEL_TO_USE) EXCEPT !.st = "ok"]

\* the body and status of check for a given value of the global model
CheckResp(m) ==
    LET status_code == IF m = "None" THEN 503 ELSE 200
        message == IF m = "None"
                   THEN "backend is running, but AI model failed to initialize."
                   ELSE "backend is running"
    IN  [Resp(status_code, "health", message, "", <<>>, MODEL_TO_USE)
            EXCEPT !.st = IF status_code = 200 THEN "ok" ELSE "error"]

\* ---------------------------------------------------------------- state
VARIABLES
    env,       \* GOOGLE_API_KEY in the environment: "unset", "empty" or "set"
    phase,     \* position of the module's top-level code
    API_KEY,   \* the global API_KEY
    model,     \* the global model: "None" or "client" ("unbound" before line 20)
    attempts,  \* times the construction of the client was attempted
    built,     \* how that attempt ended ("none": not attempted)
    bootLog,   \* lines printed by the top-level code
    reqs       \* the requests, each with its handler's position and locals

vars == <<env, phase, API_KEY, model, attempts, built, bootLog, reqs>>

boot == <<env, phase, API_KEY, model, attempts, built, bootLog>>

Rid == 1..NReq

NoExc == [cls |-> "none", msg |-> ""]

IdleReq ==
    [route |-> "none", pc |-> "idle", body |-> [kind |-> "missing", val |-> JNull],
     seen |-> "unseen", query |-> <<>>, arg |-> <<>>, invoked |-> 0, remote |-> 0,
     logs |-> 0, out |-> "none", ret |-> <<>>, exc |-> NoExc, guardHit |-> FALSE,
     resp |-> NoResp]

Init ==
    /\ env \in {"unset", "empty", "set"}
    /\ phase = "import"
    /\ API_KEY = "<None>"
    /\ model = "unbound"
    /\ attempts = 0
    /\ built = "none"
    /\ bootLog = 0
    /\ reqs = [r \in Rid |-> IdleReq]

\* ---------------------------------------------------------------- startup
\* os.environ.get("GOOGLE_API_KEY")
EnvGet(e) == CASE e = "unset" -> "<None>" [] e = "empty" -> "" [] e = "set" -> "secret"

\* truth value of API_KEY: None and "" are falsy
KeyTruthy(k) == k \notin {"<None>", ""}

\* outcomes of genai.configure followed by genai.GenerativeModel
Constructions == {"ok", "configure_raises", "model_raises"}

\* InitModel without the test of the key on line 22
InitModel_NoKeyTest(k, o) == IF o = "ok" THEN "client" ELSE "None"

\* the value the try statement leaves in model
InitModel(k, o) == IF KeyTruthy(k) /\ o = "ok" THEN "client" ELSE "None"

\* lines 10-18: read the credential, report its absence
ReadKey ==
    /\ phase = "import"
    /\ API_KEY' = EnvGet(env)
    /\ bootLog' = IF KeyTruthy(EnvGet(env)) THEN bootLog ELSE bootLog + 1
    /\ phase' = "try"
    /\ UNCHANGED <<env, model, attempts, built, reqs>>

\* lines 20-39: build the client if there is a key, then create the app
Configure ==
    /\ phase = "try"
    /\ \E o \in Constructions :
        /\ model' = InitModel(API_KEY, o)
        /\ attempts' = IF KeyTruthy(API_KEY) THEN attempts + 1 ELSE attempts
        /\ built' = IF KeyTruthy(API_KEY) THEN o ELSE "none"
        /\ bootLog' = IF KeyTruthy(API_KEY) /\ o # "ok" THEN bootLog + 1 ELSE bootLog
    /\ phase' = "serving"
    /\ UNCHANGED <<env, API_KEY, reqs>>

\* ---------------------------------------------------------------- requests
Set(r, rec) == reqs' = [reqs EXCEPT ![r] = rec]

\* requests are taken up in the order of their identifiers
MayStart(r) ==
    /\ phase = "serving"
    /\ reqs[r].pc = "idle"
    /\ \A p \in Rid : p < r => reqs[p].pc # "idle"

\* GET /check, lines 76-93
Check(r) ==
    /\ MayStart(r)
    /\ Set(r, [reqs[r] EXCEPT !.route = "check", !.seen = model,
                              !.resp = CheckResp(model), !.pc = "done"])
    /\ UNCHANGED boot

\* Validate without the test of data on line 104
Validate_NoDataTest(body) ==
    LET data == GetJson(body)
        query == DictGet(data)
    IN  CASE ~HasGet(data)   -> [next |-> "done", resp |-> Unhandled, query |-> <<>>]
          [] ~QueryOk(query) -> [next |-> "done", resp |-> MissingQuery, query |-> <<>>]
          [] OTHER           -> [next |-> "guard", resp |-> NoResp, query |-> query.s]

\* lines 103-110: parse the body and validate the query
Validate(body) ==
    LET data == GetJson(body)
        query == DictGet(data)
    IN  CASE ~Truthy(data)   -> [next |-> "done", resp |-> InvalidJson, query |-> <<>>]
          [] ~HasGet(data)   -> [next |-> "done", resp |-> Unhandled, query |-> <<>>]
          [] ~QueryOk(query) -> [next |-> "done", resp |-> MissingQuery, query |-> <<>>]
          [] OTHER           -> [next |-> "guard", resp |-> NoResp, query |-> query.s]

\* Admit with the validation ahead of the availability check
Admit_ValidateFirst(m, body) ==
    LET v == Validate(body)
    IN  IF v.next = "done" THEN v
        ELSE IF m = "None"
             THEN [next |-> "done", resp |-> NotInitialized, query |-> <<>>]
             ELSE v

\* lines 100-110: the availability check first, then the validation
Admit(m, body) ==
    IF m = "None"
    THEN [next |-> "done", resp |-> NotInitialized, query |-> <<>>]
    ELSE Validate(body)

\* POST /api/execute up to the call of execute_workout, lines 98-110
ExecStart(r) ==
    /\ MayStart(r)
    /\ \E b \in Bodies :
        LET v == Admit(model, b)
        IN  Set(r, [reqs[r] EXCEPT !.route = "execute", !.body = b, !.seen = model,
                                   !.pc = v.next, !.resp = v.resp, !.query = v.query])
    /\ UNCHANGED boot

\* line 114 and lines 48-49: enter execute_workout, guard on the client
ExecGuard(r) ==
    /\ reqs[r].pc = "guard"
    /\ IF model = "None"
       THEN Set(r, [reqs[r] EXCEPT !.invoked = @ + 1, !.guardHit = TRUE,
                                   !.out = "raise", !.exc = GuardExc,
                                   !.logs = @ + 1, !.resp = OnError(GuardExc),
                                   !.pc = "done"])
       ELSE Set(r, [reqs[r] EXCEPT !.invoked = @ + 1, !.pc = "remote"])
    /\ UNCHANGED boot

\* texts the remote model answers with
Texts == {<<>>, <<"a">>, <<" ", "a", " ">>}

\* Prompt with the query trimmed
Prompt_Trimmed(query) == Strip(query)

\* the prompt handed to generate_content
Prompt(query) == query

\* what execute_workout returns for the text of the remote response
PlanText(text) == text

\* ExecRemote with a handler that discards the client after a failed call
ExecRemote_DropsClient(r) ==
    /\ reqs[r].pc = "remote"
    /\ \E o \in {"text", "raise"}, t \in Texts, e \in Excs :
        IF o = "text"
        THEN /\ Set(r, [reqs[r] EXCEPT !.arg = Prompt(reqs[r].query), !.remote = @ + 1,
                                       !.out = "text", !.ret = t,
                                       !.resp = Success(PlanText(t)), !.pc = "done"])
             /\ model' = model
        ELSE /\ Set(r, [reqs[r] EXCEPT !.arg = Prompt(reqs[r].query), !.remote = @ + 1,
                                       !.out = "raise", !.exc = e, !.logs = @ + 1,
                                       !.resp = OnError(e), !.pc = "done"])
             /\ model' = "None"
    /\ UNCHANGED <<env, phase, API_KEY, attempts, built, bootLog>>

\* lines 67-72 and 116-126: the remote call, then the response
ExecRemote(r) ==
    /\ reqs[r].pc = "remote"
    /\ \E o \in {"text", "raise"}, t \in Texts, e \in Excs :
        IF o = "text"
        THEN Set(r, [reqs[r] EXCEPT !.arg = Prompt(reqs[r].query), !.remote = @ + 1,
                                    !.out = "text", !.ret = t,
                                    !.resp = Success(PlanText(t)), !.pc = "done"])
        ELSE Set(r, [reqs[r] EXCEPT !.arg = Prompt(reqs[r].query), !.remote = @ + 1,
                                    !.out = "raise", !.exc = e, !.logs = @ + 1,
                                    !.resp = OnError(e), !.pc = "done"])
    /\ UNCHANGED boot

Next ==
    \/ ReadKey
    \/ Configure
    \/ \E r \in Rid : Check(r)
    \/ \E r \in Rid : ExecStart(r)
    \/ \E r \in Rid : ExecGuard(r)
    \/ \E r \in Rid : ExecRemote(r)

Spec == Init /\ [][Next]_vars

\* the top-level code of the module runs to its end
FairSpec == Spec /\ WF_vars(ReadKey) /\ WF_vars(Configure)

\* ---------------------------------------------------------------- vocabulary
\* the words of the claims, stated on the request as it was sent
Executed(r) == reqs[r].route = "execute" /\ reqs[r].pc = "done"

Checked(r) == reqs[r].route = "check" /\ reqs[r].pc = "done"

NotJson(b) == b.kind \in {"missing", "empty", "malformed"}

IsObject(b) == b.kind = "json" /\ b.val.t = "obj"

HasQueryKey(b) == IsObject(b) /\ "query" \in b.val.keys

Blank(s) == \A i \in 1..Len(s) : s[i] \in Whitespace

GoodQuery(b) == HasQueryKey(b) /\ b.val.q[1] = "str" /\ ~Blank(b.val.q[3])

BadQuery(b) == b.kind = "json" /\ ~GoodQuery(b)

IsError(resp, status, text) ==
    /\ resp.status = status
    /\ resp.kind = "error"
    /\ resp.text = text
    /\ resp.result = <<>>

\* ---------------------------------------------------------------- claims

\* C1: with the client available, every execute request whose body is valid
\* JSON (of any JSON type) without a usable query is answered with status 400.
C1_BadQueryIs400 ==
    \A r \in Rid :
        (Executed(r) /\ reqs[r].seen = "client" /\ BadQuery(reqs[r].body))
            => reqs[r].resp.status = 400

\* C2: with the client available, every execute request whose body is a JSON
\* object without a query field, the empty object included, is answered with
\* 400 and the missing-query error.
C2_NoQueryFieldIsMissingQuery ==
    \A r \in Rid :
        (Executed(r) /\ reqs[r].seen = "client" /\ IsObject(reqs[r].body)
            /\ ~HasQueryKey(reqs[r].body))
            => IsError(reqs[r].resp, 400,
                       "Missing or empty \"query\" field in the request.")

\* C3: while the client is unavailable, every execute request is answered 503
\* with the not-initialized error whatever its body, before any validation,
\* and never enters the generator.
C3_UnavailableFirst ==
    \A r \in Rid :
        (reqs[r].route = "execute" /\ model = "None")
            => /\ reqs[r].pc = "done"
               /\ IsError(reqs[r].resp, 503,
                          "AI service not initialized. Check API key configuration.")
               /\ reqs[r].resp.detail = ""
               /\ reqs[r].query = <<>>
               /\ reqs[r].invoked = 0
               /\ reqs[r].remote = 0

C3_Witness ==
    \E r \in Rid :
        /\ Executed(r) /\ model = "None"
        /\ GoodQuery(reqs[r].body)
        /\ reqs[r].resp.status = 503

\* C4: every answer of /check is 200 exactly when the client is available and
\* 503 otherwise, with status "ok" and "backend is running" exactly on 200,
\* status "error" and the failed-to-initialize message exactly on 503, the
\* model "gemini-2.5-flash" always; and handling /check changes nothing else.
C4_CheckAnswer ==
    \A r \in Rid :
        Checked(r) =>
            LET a == reqs[r].resp IN
            /\ a.kind = "health"
            /\ a.status \in {200, 503}
            /\ a.status = 200 <=> model = "client"
            /\ a.status = 200 <=> (a.st = "ok" /\ a.text = "backend is running")
            /\ a.status = 503 <=>
                (a.st = "error"
                 /\ a.text = "backend is running, but AI model failed to initialize.")
            /\ a.model = "gemini-2.5-flash"
            /\ reqs[r].invoked = 0 /\ reqs[r].remote = 0 /\ reqs[r].logs = 0

C4_CheckStep ==
    \A r \in Rid :
        (reqs[r].pc = "idle" /\ reqs'[r].route = "check")
            => /\ UNCHANGED boot
               /\ \A p \in Rid \ {r} : reqs'[p] = reqs[p]

C4_Check == []C4_CheckAnswer /\ [][C4_CheckStep]_vars

C4_Witness ==
    \E r, p \in Rid :
        /\ Checked(r) /\ reqs[r].resp.status = 503
        /\ reqs[p].route = "execute"

\* C5: with the client available, every execute request whose body is
\* missing, empty or not valid JSON is answered 400 with the invalid-JSON
\* error, and the generator is never invoked for it.
C5_InvalidJson ==
    \A r \in Rid :
        (reqs[r].route = "execute" /\ reqs[r].seen = "client"
            /\ NotJson(reqs[r].body))
            => /\ reqs[r].pc = "done"
               /\ IsError(reqs[r].resp, 400, "Invalid or missing JSON payload.")
               /\ reqs[r].resp.detail = ""
               /\ reqs[r].invoked = 0
               /\ reqs[r].remote = 0

C5_Witness ==
    \E r, p \in Rid :
        /\ Executed(r) /\ reqs[r].seen = "client" /\ reqs[r].body.kind = "malformed"
        /\ Executed(p) /\ reqs[p].seen = "client" /\ reqs[p].body.kind = "empty"

\* C6: with the client available, every execute request whose body is an
\* object with a string query holding a non-whitespace character reaches the
\* generator, which gets the query exactly as submitted; when the remote call
\* succeeds the answer is 200, success, with the returned text unmodified.
C6_PlanVerbatim ==
    \A r \in Rid :
        (reqs[r].route = "execute" /\ reqs[r].seen = "client"
            /\ GoodQuery(reqs[r].body))
            => /\ reqs[r].pc \in {"guard", "remote", "done"}
               /\ reqs[r].query = reqs[r].body.val.q[3]
               /\ reqs[r].pc = "done" => reqs[r].remote = 1
               /\ (reqs[r].pc = "done" /\ reqs[r].out = "text")
                    => /\ reqs[r].arg = reqs[r].body.val.q[3]
                       /\ reqs[r].invoked = 1
                       /\ reqs[r].resp.status = 200
                       /\ reqs[r].resp.kind = "success"
                       /\ reqs[r].resp.result = reqs[r].ret
                       /\ reqs[r].resp.text = "" /\ reqs[r].resp.detail = ""

C6_Witness ==
    \E r \in Rid :
        /\ Executed(r) /\ reqs[r].out = "text"
        /\ reqs[r].body.val.q[3] = <<" ", "a">>
        /\ reqs[r].ret = <<" ", "a", " ">>
        /\ reqs[r].resp.status = 200

\* C7: when the generator raises in a validated execute request, the answer
\* is 503 with the service-unavailable prefix and the error's details exactly
\* when the error is an APIError, and otherwise 500 with the fixed message and
\* no details; the error is logged once and the remote call is not repeated.
C7_ErrorMapping ==
    \A r \in Rid :
        (Executed(r) /\ reqs[r].out = "raise")
            => /\ reqs[r].exc.cls = "APIError" <=> reqs[r].resp.status = 503
               /\ reqs[r].exc.cls = "APIError"
                    => /\ IsError(reqs[r].resp, 503,
                                  "AI Service Unavailable or request error: ")
                       /\ reqs[r].resp.detail = reqs[r].exc.msg
               /\ reqs[r].exc.cls # "APIError"
                    => /\ IsError(reqs[r].resp, 500,
                                  "An unexpected internal server error occurred.")
                       /\ reqs[r].resp.detail = ""
               /\ reqs[r].logs = 1
               /\ reqs[r].invoked = 1
               /\ reqs[r].remote <= 1

C7_Witness ==
    \E r, p \in Rid :
        /\ Executed(r) /\ reqs[r].exc.cls = "APIError" /\ reqs[r].resp.status = 503
        /\ Executed(p) /\ reqs[p].exc.cls = "Exception" /\ reqs[p].resp.status = 500

\* C8: startup reaches the serving state whether the credential is absent,
\* present with a failing construction or present with a successful one; once
\* serving, the client is available exactly when the credential was present
\* and the construction succeeded; the construction is attempted at most
\* once, and never without a credential.
C8_Serving ==
    /\ phase = "serving" =>
        (model = "client" <=> (env = "set" /\ built = "ok"))
    /\ phase = "serving" => model \in {"client", "None"}
    /\ attempts <= 1
    /\ env # "set" => (attempts = 0 /\ built = "none")
    /\ (phase = "serving" /\ env = "set") => attempts = 1

C9_SuccessOrErrorObject ==
    \A r \in Rid :
        Executed(r) =>
            /\ \/ reqs[r].resp.kind = "success" /\ reqs[r].resp.status = 200
               \/ reqs[r].resp.kind = "error" /\ reqs[r].resp.status \in {400, 503, 500}
            /\ reqs[r].invoked <= 1
            /\ reqs[r].remote <= 1

\* C10: however /check and /api/execute requests interleave, no handler
\* changes the client fixed at startup, every request sees that same value,
\* and no request that passed the availability check of execute reaches the
\* absent-client guard of execute_workout.
C10_ModelFixed == phase = "serving" => model' = model

C10_SameClient ==
    \A r \in Rid :
        /\ reqs[r].seen # "unseen" => reqs[r].seen = model
        /\ ~reqs[r].guardHit
        /\ reqs[r].pc \in {"guard", "remote"} => model = "client"

C10_ReadOnlyClient == [][C10_ModelFixed]_vars /\ []C10_SameClient

C10_Witness ==
    \E r, p \in Rid :
        /\ reqs[r].pc = "remote" /\ reqs[r].invoked = 1
        /\ reqs[p].pc = "guard"
        /\ model = "client"

====
